---------------------------- MODULE Spec2Model ----------------------------
(* Model of src/signaling_server.py: the in-memory room registry `rooms`,  *)
(* its asyncio lock `rooms_lock`, the REST create_room handler and the     *)
(* per-connection coroutine websocket_endpoint with forward_text and       *)
(* forward_binary.  asyncio is cooperative: code between two suspensions   *)
(* runs atomically.  `async with rooms_lock` does not suspend when the     *)
(* lock is free and nobody waits for it; otherwise the task joins the      *)
(* lock's queue of waiters, which is served first come first served.       *)
(* Every action below is one such segment: a handler runs from the await   *)
(* that woke it to its next suspension.                                    *)
EXTENDS Integers, Sequences, FiniteSets, TLC

(* ------------------------------ bounds -------------------------------- *)
\* number of WebSocket connections (handles) that may ever be opened
NConn == 3
\* total number of inbound frames the clients send over all connections
MaxFrames == 2
\* what the clients do over a whole run: connections opened, plus frames
\* sent, plus REST calls made
MaxWork == 4
\* the same two bounds for the clients of one room (OneRoom below)
OrderFrames == 3
OrderWork == 6

(* -------------------------- program constants ------------------------- *)
\* signaling_server.py:32 sets MAX_PARTICIPANTS_PER_ROOM = 10, a knob fixed at
\* start-up.  The model fixes it at start-up too, to one of these scaled
\* values: the smaller makes a full room reachable, the larger a room of
\* three members.
CapacityChoices == {2, 3}
\* signaling_server.py:31 (5 MiB in the source; scaled, lengths are abstract)
MAX_BINARY_SIZE == 2

Conns == 1..NConn
RoomIds == {"r1", "r2"}
\* path parameter user_id: any string, the literal "all" included
UserIds == {"alice", "bob", "all"}
\* lengths of inbound binary frames: at the limit and one above it
BinLens == {MAX_BINARY_SIZE, MAX_BINARY_SIZE + 1}

Absent == "<absent>"     \* a key that is not in the JSON object
Unhashable == "<unhashable>"   \* a JSON list or object, where an id is expected
None == 0                \* Python None / no handle / lock not held
NoData == [kind |-> "none", type |-> Absent, from |-> Absent, to |-> Absent,
           payload |-> Absent, len |-> 0, src |-> None, seq |-> 0]

\* values a client may put under "from" itself
ClientFrom == {Absent, "bob"}

\* the JSON objects a client may send: the empty object, and full envelopes
\* for every `to`, with and without a client-supplied `from`
ClientObjects ==
    [kind : {"text"}, type : {"message"}, from : ClientFrom,
     to : UserIds, payload : {"p"}, len : {0}, src : {None}, seq : {0}]
    \cup {[NoData EXCEPT !.kind = "text"]}
    \cup {[NoData EXCEPT !.kind = "text", !.type = "message", !.to = Unhashable,
                         !.payload = "p"]}

\* the envelope with these `from` and `to`
Envelope(f, t) ==
    [NoData EXCEPT !.kind = "text", !.type = "message", !.from = f, !.to = t,
                   !.payload = "p"]

\* what the clients of a run may do: the bounds on their work, the rooms
\* they name, the ids each handle may present, the JSON objects and the
\* lengths of binary frames they send.  Anyone: all of it
Anyone ==
    [work |-> MaxWork, frames |-> MaxFrames, calls |-> MaxWork,
     rooms |-> RoomIds, users |-> [c \in Conns |-> UserIds],
     objects |-> ClientObjects, lens |-> BinLens]

\* clients that all use room r1, each handle under an id of its own, that
\* make one REST call at most and whose JSON objects are well-formed
\* envelopes, a broadcast or one for bob: three connections and three frames
\* fit in one run
OneRoom ==
    [work |-> OrderWork, frames |-> OrderFrames, calls |-> 1,
     rooms |-> {"r1"}, users |-> <<{"alice"}, {"bob"}, {"carol"}>>,
     objects |-> {Envelope(Absent, Absent), Envelope(Absent, "bob")},
     lens |-> BinLens]

VARIABLES
    rooms,       \* rooms: room_id -> ordered dict user_id -> WebSocket
    lock,        \* rooms_lock: None or the connection whose task holds it
    waiters,     \* rooms_lock._waiters: the tasks queued on the lock, in order
    pc,          \* position of each websocket_endpoint coroutine
    room_id,     \* path parameter of each connection
    user_id,     \* path parameter of each connection
    alive,       \* transport state of each handle: TRUE while sends succeed
    data,        \* local `data` / `bdata` of the frame being handled
    to,          \* local `to` of websocket_endpoint / forward_text
    recipients,  \* local `recipients` of forward_text / forward_binary
    inbox,       \* frames the server delivered to each handle, in order
    closeCode,   \* code of the server's close() call on each handle (0: none)
    cleanups,    \* how many times the finally block ran per connection
    snapshot,    \* recipients as captured under the lock, kept while sending
    nframes,     \* inbound frames consumed so far
    ncalls,      \* REST calls made so far (create_room, get_room_info)
    joinSeq,     \* history: the how-manieth registration each handle was
    remaining,   \* history: handles left in the room by a handle's cleanup
    clients,     \* what the clients of this run may do (a record, fixed)
    stalled,     \* handles whose peer stopped reading: I/O on them hangs
    MAX_PARTICIPANTS_PER_ROOM   \* the module-level constant of the program

vars == <<rooms, lock, waiters, pc, room_id, user_id, alive, data, to, recipients,
          inbox, closeCode, cleanups, snapshot, nframes, ncalls, joinSeq,
          remaining, stalled, MAX_PARTICIPANTS_PER_ROOM, clients>>

\* what no handler ever assigns
config == <<MAX_PARTICIPANTS_PER_ROOM, clients>>

\* an awaited send or close on handle ws does not return: the transport is
\* up and the peer does not drain it (None: there is nothing to await)
Blocked(ws) == ws # None /\ ws \in stalled /\ alive[ws]

(* ----------------------------- rooms_lock ------------------------------ *)
\* a waiter is the session of a connection, a create_room call, or a
\* get_room_info call
RoomSeq == <<"r1", "r2">>
CreateWaiter(r) == NConn + (CHOOSE k \in 1..Len(RoomSeq) : RoomSeq[k] = r)
IsCreate(w) == w > NConn /\ w <= NConn + Len(RoomSeq)
RoomOf(w) == RoomSeq[w - NConn]
InfoWaiter(r) == NConn + Len(RoomSeq) + (CHOOSE k \in 1..Len(RoomSeq) : RoomSeq[k] = r)
IsInfo(w) == w > NConn + Len(RoomSeq)

\* Lock.acquire() returns at once: not locked and no waiter queued
LockFree == lock = None /\ waiters = << >>

\* waiter w was woken by the last release() and takes the lock
MyTurn(w) == lock = None /\ waiters # << >> /\ Head(waiters) = w

(* ------------------------- ordered dict helpers ------------------------ *)
\* uid in d
HasKey(d, uid) == \E i \in 1..Len(d) : d[i].uid = uid

\* d.get(uid): the handle, or None
Get(d, uid) ==
    IF HasKey(d, uid)
    THEN d[CHOOSE i \in 1..Len(d) : d[i].uid = uid].ws
    ELSE None

\* d[uid] = ws: an existing key keeps its position and gets the new value
SetItem(d, uid, ws) ==
    IF HasKey(d, uid)
    THEN [i \in 1..Len(d) |-> IF d[i].uid = uid THEN [uid |-> uid, ws |-> ws] ELSE d[i]]
    ELSE Append(d, [uid |-> uid, ws |-> ws])

\* del d[uid]
DelItem(d, uid) == SelectSeq(d, LAMBDA e : e.uid # uid)

\* mutation: the comprehension without its `if uid != from_user`
Others_Unfiltered(d, from_user) == [i \in 1..Len(d) |-> d[i].ws]

\* [ws for uid, ws in d.items() if uid != from_user]
Others(d, from_user) ==
    LET kept == SelectSeq(d, LAMBDA e : e.uid # from_user)
    IN  [i \in 1..Len(kept) |-> kept[i].ws]

\* the set of elements of a sequence
Range(s) == {s[i] : i \in 1..Len(s)}

\* the handles registered in room r (none when the room does not exist)
Members(rs, r) == IF r \in DOMAIN rs THEN {rs[r][i].ws : i \in 1..Len(rs[r])} ELSE {}

\* rooms with room r removed
DropRoom(rs, r) == [x \in (DOMAIN rs) \ {r} |-> rs[x]]

\* rooms with room r mapped to d (created when absent)
PutRoom(rs, r, d) == [x \in (DOMAIN rs) \cup {r} |-> IF x = r THEN d ELSE rs[x]]

\* the clients may still open a connection / send a frame / make a REST call
Opened == Cardinality({c \in Conns : pc[c] # "idle"})
Work == Opened + nframes + ncalls
MayConnect == Work < clients.work
MayFrame == nframes < clients.frames /\ Work < clients.work
MayCall == ncalls < clients.calls /\ Work < clients.work

(* ------------------------------- Init --------------------------------- *)
\* the server after start-up: no room, no connection, the lock free
Boot ==
    /\ rooms = << >>
    /\ lock = None
    /\ waiters = << >>
    /\ pc = [c \in Conns |-> "idle"]
    /\ room_id = [c \in Conns |-> "r1"]
    /\ user_id = [c \in Conns |-> "alice"]
    /\ alive = [c \in Conns |-> FALSE]
    /\ data = [c \in Conns |-> NoData]
    /\ to = [c \in Conns |-> Absent]
    /\ recipients = [c \in Conns |-> << >>]
    /\ inbox = [c \in Conns |-> << >>]
    /\ closeCode = [c \in Conns |-> 0]
    /\ cleanups = [c \in Conns |-> 0]
    /\ snapshot = [c \in Conns |-> << >>]
    /\ nframes = 0
    /\ ncalls = 0
    /\ joinSeq = [c \in Conns |-> 0]
    /\ remaining = [c \in Conns |-> {}]
    /\ stalled = {}

Init ==
    /\ Boot
    /\ MAX_PARTICIPANTS_PER_ROOM \in CapacityChoices
    /\ clients = Anyone

(* -------------------------- REST: create_room -------------------------- *)
\* rooms.setdefault(room_id, {}) under the lock
CreateRoomStep(rs, r) == IF r \in DOMAIN rs THEN rs ELSE PutRoom(rs, r, << >>)

\* POST /create-room with room r: the handler runs its lock block, or
\* queues on the lock
CreateRoom ==
    /\ UNCHANGED <<config, stalled, joinSeq, remaining>>
    /\ MayCall
    /\ ncalls' = ncalls + 1
    /\ \E r \in clients.rooms :
          IF LockFree
          THEN /\ rooms' = CreateRoomStep(rooms, r)
               /\ UNCHANGED waiters
          ELSE /\ waiters' = Append(waiters, CreateWaiter(r))
               /\ UNCHANGED rooms
    /\ UNCHANGED <<lock, pc, room_id, user_id, alive, data, to, recipients,
                   inbox, closeCode, cleanups, snapshot, nframes>>

\* the create_room call at the head of the queue gets the lock
CreateRoomRun ==
    /\ UNCHANGED <<config, stalled, ncalls, joinSeq, remaining>>
    /\ lock = None
    /\ waiters # << >>
    /\ IsCreate(Head(waiters))
    /\ rooms' = CreateRoomStep(rooms, RoomOf(Head(waiters)))
    /\ waiters' = Tail(waiters)
    /\ UNCHANGED <<lock, pc, room_id, user_id, alive, data, to, recipients,
                   inbox, closeCode, cleanups, snapshot, nframes>>

(* ------------------------- REST: get_room_info ------------------------- *)
\* GET /rooms/{room_id}: the handler takes the lock to read the registry
\* (the answer, 404 or the participants, changes nothing), or queues on it
GetRoomInfo ==
    /\ UNCHANGED <<config, stalled, joinSeq, remaining>>
    /\ MayCall
    /\ ncalls' = ncalls + 1
    /\ \E r \in clients.rooms :
          IF LockFree
          THEN UNCHANGED waiters
          ELSE waiters' = Append(waiters, InfoWaiter(r))
    /\ UNCHANGED <<rooms, lock, pc, room_id, user_id, alive, data, to,
                   recipients, inbox, closeCode, cleanups, snapshot, nframes>>

\* the get_room_info call at the head of the queue gets the lock, reads,
\* and gives it back
GetRoomInfoRun ==
    /\ UNCHANGED <<config, stalled, ncalls, joinSeq, remaining>>
    /\ lock = None
    /\ waiters # << >>
    /\ IsInfo(Head(waiters))
    /\ waiters' = Tail(waiters)
    /\ UNCHANGED <<rooms, lock, pc, room_id, user_id, alive, data, to,
                   recipients, inbox, closeCode, cleanups, snapshot, nframes>>

(* ------------------- websocket_endpoint: accept, join ------------------ *)
\* Handles are numbered in the order they connect, and the first handle
\* names its room "r1" and, unless it calls itself "all", its user "alice":
\* renaming handles, rooms or plain users maps every run onto one of these.
FirstUse(c, S, first) == IF c = 1 THEN S \ ((S \ {"all"}) \ {first}) ELSE S

\* if room_id not in rooms: rooms[room_id] = {}
EnsureRoom(rs, r) == IF r \in DOMAIN rs THEN rs ELSE PutRoom(rs, r, << >>)

\* as RoomFull, off by one: `>` for `>=`
RoomFull_OffByOne(d) == Len(d) > MAX_PARTICIPANTS_PER_ROOM

\* len(rooms[room_id]) >= MAX_PARTICIPANTS_PER_ROOM
RoomFull(d) == Len(d) >= MAX_PARTICIPANTS_PER_ROOM

\* rooms[room_id][user_id] = websocket
Register(rs, r, u, c) == PutRoom(rs, r, SetItem(rs[r], u, c))

\* the critical section of the join (lines 74-83); a full room leaves the
\* coroutine awaiting websocket.close(1008) with the lock still held
JoinSection(c, r, u) ==
    LET rs == EnsureRoom(rooms, r)
    IN  IF RoomFull(rs[r])
        THEN /\ rooms' = rs
             /\ lock' = c
             /\ pc' = [pc EXCEPT ![c] = "reject_close"]
             /\ UNCHANGED joinSeq
        ELSE /\ rooms' = Register(rs, r, u, c)
             /\ lock' = None
             /\ pc' = [pc EXCEPT ![c] = "recv"]
             /\ joinSeq' = [joinSeq EXCEPT ![c] =
                               Cardinality({x \in Conns : joinSeq[x] # 0}) + 1]

\* a client opens /ws/{r}/{u}: accept(), then the join, or a wait for the lock
Connect(c) ==
    /\ UNCHANGED <<config, stalled, ncalls, remaining>>
    /\ pc[c] = "idle"
    /\ MayConnect
    /\ \A b \in Conns : b < c => pc[b] # "idle"
    /\ \E r \in FirstUse(c, clients.rooms, "r1"), u \in FirstUse(c, clients.users[c], "alice") :
          /\ room_id' = [room_id EXCEPT ![c] = r]
          /\ user_id' = [user_id EXCEPT ![c] = u]
          /\ IF LockFree
             THEN /\ JoinSection(c, r, u)
                  /\ UNCHANGED waiters
             ELSE /\ pc' = [pc EXCEPT ![c] = "accepted"]
                  /\ waiters' = Append(waiters, c)
                  /\ UNCHANGED <<rooms, lock, joinSeq>>
    /\ alive' = [alive EXCEPT ![c] = TRUE]
    /\ UNCHANGED <<data, to, recipients, inbox, closeCode, cleanups, snapshot,
                   nframes>>

\* the join of a connection that had to wait for the lock
Join(c) ==
    /\ UNCHANGED <<config, stalled, ncalls, remaining>>
    /\ pc[c] = "accepted"
    /\ MyTurn(c)
    /\ waiters' = Tail(waiters)
    /\ JoinSection(c, room_id[c], user_id[c])
    /\ UNCHANGED <<room_id, user_id, alive, data, to, recipients, inbox,
                   closeCode, cleanups, snapshot, nframes>>

\* the coroutine has returned: its parameters and the client's log are dead
Finished(c) ==
    /\ pc' = [pc EXCEPT ![c] = "done"]
    /\ room_id' = [room_id EXCEPT ![c] = "r1"]
    /\ user_id' = [user_id EXCEPT ![c] = "alice"]
    /\ inbox' = [inbox EXCEPT ![c] = << >>]
    /\ alive' = [alive EXCEPT ![c] = FALSE]

\* websocket.close(code=1008) completes, `return` leaves the lock block;
\* the try/finally is never entered
RejectClose(c) ==
    /\ UNCHANGED <<config, stalled, ncalls, joinSeq, remaining>>
    /\ pc[c] = "reject_close"
    /\ lock = c
    /\ ~Blocked(c)
    /\ closeCode' = [closeCode EXCEPT ![c] = 1008]
    /\ lock' = None
    /\ Finished(c)
    /\ UNCHANGED <<rooms, waiters, data, to, recipients, cleanups, snapshot,
                   nframes>>

(* ------------------------ the receive loop ----------------------------- *)
\* the peer goes away, whatever its session is doing; the session learns
\* of it at its next receive(), sends to the handle fail meanwhile
PeerDisconnect(c) ==
    /\ UNCHANGED <<config, stalled, ncalls, joinSeq, remaining>>
    /\ pc[c] \notin {"idle", "done"}
    /\ alive[c]
    /\ alive' = [alive EXCEPT ![c] = FALSE]
    /\ UNCHANGED <<rooms, lock, waiters, pc, room_id, user_id, data, to, recipients,
                   inbox, closeCode, cleanups, snapshot, nframes>>

\* text frame whose json.loads raises: logged, `continue`
RecvInvalidJson(c) ==
    /\ UNCHANGED <<config, stalled, ncalls, joinSeq, remaining>>
    /\ pc[c] = "recv"
    /\ alive[c]
    /\ MayFrame
    /\ nframes' = nframes + 1
    /\ UNCHANGED <<rooms, lock, waiters, pc, room_id, user_id, alive, data, to,
                   recipients, inbox, closeCode, cleanups, snapshot>>

\* back at `msg = await websocket.receive()`: the frame's locals are dead
BackToRecv(c) ==
    /\ pc' = [pc EXCEPT ![c] = "recv"]
    /\ data' = [data EXCEPT ![c] = NoData]
    /\ to' = [to EXCEPT ![c] = Absent]
    /\ recipients' = [recipients EXCEPT ![c] = << >>]
    /\ snapshot' = [snapshot EXCEPT ![c] = << >>]

\* the lock block ended with a recipients list: the send loop starts, and
\* with nobody to send to the handler is back at receive()
StartSend(c, d, t, recs) ==
    IF recs = << >>
    THEN BackToRecv(c)
    ELSE /\ pc' = [pc EXCEPT ![c] = "send"]
         /\ data' = [data EXCEPT ![c] = d]
         /\ to' = [to EXCEPT ![c] = t]
         /\ recipients' = [recipients EXCEPT ![c] = recs]
         /\ snapshot' = [snapshot EXCEPT ![c] = recs]

\* the handler suspends at position `where` with its locals
Suspend(c, where, d, t) ==
    /\ pc' = [pc EXCEPT ![c] = where]
    /\ data' = [data EXCEPT ![c] = d]
    /\ to' = [to EXCEPT ![c] = t]
    /\ UNCHANGED <<recipients, snapshot>>

\* the handler parks at `async with rooms_lock`: last in the lock's queue
Park(c, where, d, t) ==
    /\ Suspend(c, where, d, t)
    /\ waiters' = Append(waiters, c)

(* --------------------------- finally: cleanup -------------------------- *)
\* del rooms[room_id][user_id] when present, then drop the room when empty
CleanupRooms(rs, r, u) ==
    LET rs1 == IF r \in DOMAIN rs /\ HasKey(rs[r], u)
               THEN PutRoom(rs, r, DelItem(rs[r], u))
               ELSE rs
    IN  IF r \in DOMAIN rs1 /\ rs1[r] = << >> THEN DropRoom(rs1, r) ELSE rs1

\* the lock block of the finally clause (lines 137-146)
CleanupSection(c) ==
    /\ rooms' = CleanupRooms(rooms, room_id[c], user_id[c])
    /\ cleanups' = [cleanups EXCEPT ![c] = @ + 1]
    /\ pc' = [pc EXCEPT ![c] = "close"]
    /\ remaining' = [remaining EXCEPT ![c] = Members(rooms', room_id[c])]

\* as Terminate, with the cleanup also done in the except handler, before
\* the finally clause does it
Terminate_Twice(c) ==
    IF LockFree
    THEN /\ rooms' = CleanupRooms(rooms, room_id[c], user_id[c])
         /\ cleanups' = [cleanups EXCEPT ![c] = @ + 1]
         /\ remaining' = [remaining EXCEPT ![c] = Members(rooms', room_id[c])]
         /\ pc' = [pc EXCEPT ![c] = "cleanup"]
         /\ waiters' = Append(waiters, c)
    ELSE /\ pc' = [pc EXCEPT ![c] = "cleanup"]
         /\ waiters' = Append(waiters, c)
         /\ UNCHANGED <<rooms, cleanups, remaining>>

\* an exception left the loop: run the finally clause, or wait for the lock
Terminate(c) ==
    IF LockFree
    THEN /\ CleanupSection(c)
         /\ UNCHANGED waiters
    ELSE /\ pc' = [pc EXCEPT ![c] = "cleanup"]
         /\ waiters' = Append(waiters, c)
         /\ UNCHANGED <<rooms, cleanups, remaining>>

\* text frame that parses to a JSON value without setdefault (list, number,
\* string, null): data.setdefault raises AttributeError, caught by
\* `except Exception`, control goes to the finally block
RecvNonObject(c) ==
    /\ UNCHANGED <<config, stalled, ncalls, joinSeq>>
    /\ pc[c] = "recv"
    /\ alive[c]
    /\ MayFrame
    /\ nframes' = nframes + 1
    /\ Terminate(c)
    /\ UNCHANGED <<lock, room_id, user_id, alive, data, to, recipients, inbox,
                   closeCode, snapshot>>

\* receive() reports the disconnect: the message has neither "text" nor
\* "bytes" (else branch, 10 ms sleep) and the receive() after it raises;
\* the except clauses fall through to the finally block
RecvDisconnect(c) ==
    /\ UNCHANGED <<config, stalled, ncalls, joinSeq>>
    /\ pc[c] = "recv"
    /\ ~alive[c]
    /\ Terminate(c)
    /\ UNCHANGED <<lock, room_id, user_id, alive, data, to, recipients, inbox,
                   closeCode, snapshot, nframes>>

\* the finally clause of a connection that had to wait for the lock
Cleanup(c) ==
    /\ UNCHANGED <<config, stalled, ncalls, joinSeq>>
    /\ pc[c] = "cleanup"
    /\ MyTurn(c)
    /\ waiters' = Tail(waiters)
    /\ CleanupSection(c)
    /\ UNCHANGED <<lock, room_id, user_id, alive, data, to, recipients, inbox,
                   closeCode, snapshot, nframes>>

\* try: await websocket.close() (default code 1000), outside the lock
Close(c) ==
    /\ UNCHANGED <<config, stalled, ncalls, joinSeq>>
    /\ pc[c] = "close"
    /\ ~Blocked(c)
    /\ closeCode' = [closeCode EXCEPT ![c] = 1000]
    /\ remaining' = [remaining EXCEPT ![c] = {}]
    /\ Finished(c)
    /\ UNCHANGED <<rooms, lock, waiters, data, to, recipients, cleanups,
                   snapshot, nframes>>

(* ----------------------------- frames out ------------------------------ *)
\* json.dumps({"type": "error", "payload": {"message": m}})
ErrorEnvelope(m) ==
    [kind |-> "text", type |-> "error", from |-> Absent, to |-> Absent,
     payload |-> m, len |-> 0, src |-> None, seq |-> 0]

\* await ws.send_*(frame) inside try/except: delivered when the transport of
\* ws is up, otherwise the exception is swallowed
SendTo(box, ws, frame) ==
    IF alive[ws] THEN [box EXCEPT ![ws] = Append(@, frame)] ELSE box

(* ----------------------------- forward_text ---------------------------- *)
\* data.setdefault("from", user_id)
AttachSender(d, u) == IF d.from = Absent THEN [d EXCEPT !.from = u] ELSE d

\* data.get("to", "all")
ToOf(d) == IF d.to = Absent THEN "all" ELSE d.to

\* as TextRecipients, with the `to` branch lost: every frame is broadcast
TextRecipients_Broadcast(d, from_user, t) == Others(d, from_user)

\* as TextRecipients, with the sender filter lost in the broadcast branch
TextRecipients_Echo(d, from_user, t) ==
    IF t = "all"
    THEN [i \in 1..Len(d) |-> d[i].ws]
    ELSE IF Get(d, t) # None THEN <<Get(d, t)>> ELSE << >>

\* the recipients list forward_text builds under the lock (lines 158-165)
TextRecipients(d, from_user, t) ==
    IF t = "all"
    THEN Others(d, from_user)
    ELSE IF Get(d, t) # None THEN <<Get(d, t)>> ELSE << >>

\* the handle the target-not-found reply is sent on (line 169)
SenderWs(d, from_user) == Get(d, from_user)

\* an exception leaves forward_text's lock block (the lock is given back)
\* and then the loop: the frame's locals are dead, the finally clause runs
\* its lock block when nobody is queued (q is the queue the task leaves
\* behind), or queues last
RaiseUnderLock(c, q) ==
    /\ data' = [data EXCEPT ![c] = NoData]
    /\ to' = [to EXCEPT ![c] = Absent]
    /\ recipients' = [recipients EXCEPT ![c] = << >>]
    /\ snapshot' = [snapshot EXCEPT ![c] = << >>]
    /\ UNCHANGED lock
    /\ IF q = << >>
       THEN /\ CleanupSection(c)
            /\ waiters' = q
       ELSE /\ pc' = [pc EXCEPT ![c] = "cleanup"]
            /\ waiters' = Append(q, c)
            /\ UNCHANGED <<rooms, cleanups, remaining>>

\* the lock block of forward_text (lines 154-178) for envelope d, target t,
\* entered by a task that leaves the queue q behind
TextSection(c, d, t, q) ==
    IF room_id[c] \notin DOMAIN rooms
    THEN \* room vanished: return
         /\ BackToRecv(c)
         /\ waiters' = q
         /\ UNCHANGED <<lock, rooms, cleanups, remaining>>
    ELSE LET m == rooms[room_id[c]]
         IN  IF t = Unhashable
             THEN \* rooms[room_id].get(to) raises TypeError
                  RaiseUnderLock(c, q)
             ELSE IF t = "all" \/ Get(m, t) # None
             THEN \* recipients captured, lock released, the sends follow
                  /\ StartSend(c, d, t, TextRecipients(m, user_id[c], t))
                  /\ waiters' = q
                  /\ UNCHANGED <<lock, rooms, cleanups, remaining>>
             ELSE IF SenderWs(m, user_id[c]) # None
             THEN \* target missing: await sender_ws.send_text(...) with
                  \* the lock held
                  /\ lock' = c
                  /\ Suspend(c, "error_reply", d, t)
                  /\ waiters' = q
                  /\ UNCHANGED <<rooms, cleanups, remaining>>
             ELSE \* target missing and nobody registered as the sender
                  /\ BackToRecv(c)
                  /\ waiters' = q
                  /\ UNCHANGED <<lock, rooms, cleanups, remaining>>

\* text frame holding a JSON object: attach sender, read `to`, forward_text
RecvObject(c) ==
    /\ UNCHANGED <<config, stalled, ncalls, joinSeq>>
    /\ pc[c] = "recv"
    /\ alive[c]
    /\ MayFrame
    /\ nframes' = nframes + 1
    /\ \E o \in clients.objects :
          LET d == [AttachSender(o, user_id[c]) EXCEPT !.src = c, !.seq = nframes + 1]
          IN  IF LockFree
              THEN TextSection(c, d, ToOf(d), << >>)
              ELSE /\ Park(c, "forward_text", d, ToOf(d))
                   /\ UNCHANGED <<lock, rooms, cleanups, remaining>>
    /\ UNCHANGED <<room_id, user_id, alive, inbox, closeCode>>

\* forward_text of a handler that had to wait for the lock
ForwardTextLock(c) ==
    /\ UNCHANGED <<config, stalled, ncalls, joinSeq>>
    /\ pc[c] = "forward_text"
    /\ MyTurn(c)
    /\ TextSection(c, data[c], to[c], Tail(waiters))
    /\ UNCHANGED <<room_id, user_id, alive, inbox, closeCode, nframes>>

\* sender_ws.send_text(error) completes; `return` releases the lock
ErrorReply(c) ==
    /\ UNCHANGED <<config, stalled, ncalls, joinSeq, remaining>>
    /\ pc[c] = "error_reply"
    /\ lock = c
    /\ ~Blocked(SenderWs(rooms[room_id[c]], user_id[c]))
    /\ inbox' = SendTo(inbox, SenderWs(rooms[room_id[c]], user_id[c]),
                       ErrorEnvelope(<<"target", to[c], "not found">>))
    /\ lock' = None
    /\ BackToRecv(c)
    /\ UNCHANGED <<rooms, waiters, room_id, user_id, alive, closeCode,
                   cleanups, nframes>>

(* ---------------------------- forward_binary --------------------------- *)
\* mutation: the limit itself is rejected
TooLarge_OffByOne(n) == n >= MAX_BINARY_SIZE

\* len(bdata) > MAX_BINARY_SIZE
TooLarge(n) == n > MAX_BINARY_SIZE

\* mutation: the sender is not filtered out of the binary recipients
BinaryRecipients_Echo(d, from_user) == [i \in 1..Len(d) |-> d[i].ws]

\* the recipients list forward_binary builds under the lock (line 192)
BinaryRecipients(d, from_user) == Others(d, from_user)

\* the lock block of forward_binary (lines 189-192)
BinarySection(c, d) ==
    IF room_id[c] \notin DOMAIN rooms
    THEN BackToRecv(c)
    ELSE StartSend(c, d, Absent, BinaryRecipients(rooms[room_id[c]], user_id[c]))

\* a binary frame of n bytes: over the limit -> the handler awaits the send
\* of the error envelope on its own websocket; otherwise forward_binary
BinaryFrame(c, n) ==
    /\ UNCHANGED <<config, stalled, ncalls, joinSeq, remaining>>
    /\ pc[c] = "recv"
    /\ alive[c]
    /\ MayFrame
    /\ nframes' = nframes + 1
    /\ IF TooLarge(n)
       THEN /\ pc' = [pc EXCEPT ![c] = "reply_too_large"]
            /\ UNCHANGED <<waiters, data, to, recipients, snapshot>>
       ELSE LET d == [NoData EXCEPT !.kind = "bytes", !.len = n,
                                    !.src = c, !.seq = nframes + 1]
            IN  IF LockFree
                THEN /\ BinarySection(c, d)
                     /\ UNCHANGED waiters
                ELSE Park(c, "forward_binary", d, Absent)
    /\ UNCHANGED <<rooms, lock, room_id, user_id, alive, inbox, closeCode,
                   cleanups>>

RecvBinary(c) == \E n \in clients.lens : BinaryFrame(c, n)

\* websocket.send_text(error) of the too-large reply returns or raises (the
\* exception is swallowed), `continue`: back at receive()
ReplyTooLarge(c) ==
    /\ UNCHANGED <<config, stalled, ncalls, joinSeq, remaining>>
    /\ pc[c] = "reply_too_large"
    /\ ~Blocked(c)
    /\ inbox' = SendTo(inbox, c, ErrorEnvelope(<<"binary frame too large">>))
    /\ pc' = [pc EXCEPT ![c] = "recv"]
    /\ UNCHANGED <<rooms, lock, waiters, room_id, user_id, alive, data, to,
                   recipients, closeCode, cleanups, snapshot, nframes>>

\* forward_binary of a handler that had to wait for the lock
ForwardBinaryLock(c) ==
    /\ UNCHANGED <<config, stalled, ncalls, joinSeq, remaining>>
    /\ pc[c] = "forward_binary"
    /\ MyTurn(c)
    /\ waiters' = Tail(waiters)
    /\ BinarySection(c, data[c])
    /\ UNCHANGED <<rooms, lock, room_id, user_id, alive, inbox, closeCode,
                   cleanups, nframes>>

(* ------------------- the send loops, outside the lock ------------------ *)
\* mutation: one try/except around the whole loop, the first failed send
\* ends the relay
SendNext_Break(c) ==
    /\ UNCHANGED <<config, stalled, ncalls, joinSeq, remaining>>
    /\ pc[c] = "send"
    /\ ~Blocked(Head(recipients[c]))
    /\ inbox' = SendTo(inbox, Head(recipients[c]), data[c])
    /\ IF Tail(recipients[c]) = << >> \/ ~alive[Head(recipients[c])]
       THEN BackToRecv(c)
       ELSE /\ recipients' = [recipients EXCEPT ![c] = Tail(@)]
            /\ UNCHANGED <<pc, data, to, snapshot>>
    /\ UNCHANGED <<rooms, lock, waiters, room_id, user_id, alive, closeCode,
                   cleanups, nframes>>

\* as SendNext, with the send started as a task of its own and not awaited:
\* the handler goes on, and its send of the next frame to the same recipient
\* may complete before this one
SendNext_NotAwaited(c) ==
    /\ UNCHANGED <<config, stalled, ncalls, joinSeq, remaining>>
    /\ pc[c] = "send"
    /\ ~Blocked(Head(recipients[c]))
    /\ LET ws == Head(recipients[c])
           n == Len(inbox[ws])
       IN  inbox' = IF alive[ws] /\ n > 0 /\ inbox[ws][n].src = c
                    THEN [inbox EXCEPT ![ws] =
                            SubSeq(@, 1, n - 1) \o <<data[c], @[n]>>]
                    ELSE SendTo(inbox, ws, data[c])
    /\ IF Tail(recipients[c]) = << >>
       THEN BackToRecv(c)
       ELSE /\ recipients' = [recipients EXCEPT ![c] = Tail(@)]
            /\ UNCHANGED <<pc, data, to, snapshot>>
    /\ UNCHANGED <<rooms, lock, waiters, room_id, user_id, alive, closeCode,
                   cleanups, nframes>>

\* one iteration of `for ws in recipients: try: await ws.send_...`; after
\* the last one the handler is back at receive()
SendNext(c) ==
    /\ UNCHANGED <<config, stalled, ncalls, joinSeq, remaining>>
    /\ pc[c] = "send"
    /\ ~Blocked(Head(recipients[c]))
    /\ inbox' = SendTo(inbox, Head(recipients[c]), data[c])
    /\ IF Tail(recipients[c]) = << >>
       THEN BackToRecv(c)
       ELSE /\ recipients' = [recipients EXCEPT ![c] = Tail(@)]
            /\ UNCHANGED <<pc, data, to, snapshot>>
    /\ UNCHANGED <<rooms, lock, waiters, room_id, user_id, alive, closeCode,
                   cleanups, nframes>>

(* ------------------------------- Next ---------------------------------- *)
Next ==
    \/ CreateRoom
    \/ CreateRoomRun
    \/ GetRoomInfo
    \/ GetRoomInfoRun
    \/ \E c \in Conns :
          \/ Connect(c)
          \/ Join(c)
          \/ RejectClose(c)
          \/ PeerDisconnect(c)
          \/ RecvInvalidJson(c)
          \/ RecvNonObject(c)
          \/ RecvObject(c)
          \/ RecvBinary(c)
          \/ ReplyTooLarge(c)
          \/ RecvDisconnect(c)
          \/ ForwardTextLock(c)
          \/ ErrorReply(c)
          \/ ForwardBinaryLock(c)
          \/ SendNext(c)
          \/ Cleanup(c)
          \/ Close(c)

Spec == Init /\ [][Next]_vars

\* the server with the clients of one room
InitOrder ==
    /\ Boot
    /\ MAX_PARTICIPANTS_PER_ROOM \in CapacityChoices
    /\ clients = OneRoom

SpecOrder == InitOrder /\ [][Next]_vars

(* ------------------------------ scheduling ----------------------------- *)
\* the steps of session c that wait for rooms_lock: a waiter of an
\* asyncio.Lock that stays free is woken and takes it
LockStep(c) ==
    \/ Join(c)
    \/ ForwardTextLock(c)
    \/ ForwardBinaryLock(c)
    \/ Cleanup(c)

\* receive() reports the disconnect: the event loop's own step
RunStep(c) == RecvDisconnect(c)

\* the return of an awaited send or close of session c: the close of a
\* rejected join, the error replies, a send of the loop, the final close.
\* Each is possible only while the peer it writes to is not stalled.
IoStep(c) ==
    \/ RejectClose(c)
    \/ ErrorReply(c)
    \/ ReplyTooLarge(c)
    \/ SendNext(c)
    \/ Close(c)

(* ------------------------- peers that stop reading --------------------- *)
\* the peer of c keeps its connection open and stops reading: from now on a
\* send or a close the server awaits on c's handle does not return. One
\* such peer at a time.
Stall(c) ==
    /\ pc[c] \notin {"idle", "done"}
    /\ alive[c]
    /\ stalled = {}
    /\ stalled' = {c}
    /\ UNCHANGED <<rooms, lock, waiters, pc, room_id, user_id, alive, data,
                   to, recipients, inbox, closeCode, cleanups, snapshot,
                   nframes, ncalls, joinSeq, remaining, config>>

NextStall ==
    \/ Next
    \/ \E c \in Conns : Stall(c)

\* the server with peers that may stall
SpecStall == Init /\ [][NextStall]_vars

\* rooms of two, so that a third join of a room is a rejected one
InitFair == Init /\ MAX_PARTICIPANTS_PER_ROOM = 2

\* the server under a fair event loop, with peers that may stop reading: a
\* task that is ready to run is run, the lock's queue is served, and a send
\* or close returns when the peer it writes to keeps reading.  Nothing makes
\* a send or close on a stalled peer return.  What clients do (connect,
\* send, disconnect, stall) and the REST calls are under no obligation.
FairSpec ==
    /\ InitFair
    /\ [][NextStall]_vars
    /\ WF_vars(CreateRoomRun)
    /\ WF_vars(GetRoomInfoRun)
    /\ \A c \in Conns :
          /\ WF_vars(LockStep(c))
          /\ WF_vars(RunStep(c))
          /\ WF_vars(IoStep(c))

(* ============================ properties ============================== *)
\* the handle c is the value of some registry entry
Registered(c) == \E r \in DOMAIN rooms : c \in Members(rooms, r)

\* the positions a coroutine is in while it awaits a send or a close
IoStates == {"reject_close", "error_reply", "reply_too_large", "send", "close"}

\* C1: no room identifier of the registry maps to an empty member
\* collection, whatever sequence of create_room calls, joins, relays and
\* cleanups led to the state.
C1_NoEmptyRoom == \A r \in DOMAIN rooms : rooms[r] # << >>

\* C2: every text envelope being relayed carries, under "from", the user_id
\* under which the sending connection joined, whatever the client put there.
C2_FromIsSender ==
    \A c \in Conns :
        (pc[c] = "send" /\ data[c].kind = "text") => data[c].from = user_id[c]

\* C3: no coroutine awaits a send or a close on a handle while rooms_lock is
\* held.
C3_NoIoUnderLock == \A c \in Conns : pc[c] \in IoStates => lock = None


(* ------------------------- relays: C4 and C5 --------------------------- *)
\* session a leaves its lock block with a recipients list
CaptureStep(a) == pc[a] # "send" /\ pc'[a] = "send"

\* session a's send loop delivers its frame to handle x in this step
SentBy(a, x) ==
    /\ pc[a] = "send"
    /\ Len(inbox'[x]) = Len(inbox[x]) + 1
    /\ inbox'[x][Len(inbox'[x])] = data[a]

\* every delivery of a send loop goes to a handle of its snapshot
DeliveredFromSnapshot(a) ==
    \A x \in Conns : SentBy(a, x) => x \in Range(snapshot[a])

\* session a captures recipients for a text envelope addressed to the
\* participant id b of another member of its room
TargetedCapture(a, b) ==
    /\ CaptureStep(a)
    /\ data'[a].kind = "text"
    /\ data'[a].to = b
    /\ b # user_id[a]
    /\ room_id[a] \in DOMAIN rooms
    /\ HasKey(rooms[room_id[a]], b)

\* the capture holds the handle registered under b and nothing else
OnlyTarget(a, b) ==
    /\ snapshot'[a] = <<Get(rooms[room_id[a]], b)>>
    /\ a \notin Range(snapshot'[a])

\* C4 (as claimed): a text envelope from A whose `to` is the participant id
\* of another member B of A's room is delivered to B's connection only,
\* never to a third member and never back to A.
C4_TargetedOnly ==
    [][\A a \in Conns :
          /\ \A b \in UserIds : TargetedCapture(a, b) => OnlyTarget(a, b)
          /\ DeliveredFromSnapshot(a)]_vars

\* C4 (amended): the same, for every participant id b other than the
\* literal "all", which forward_text reads as the broadcast address.
C4_TargetedOnlyUnlessAll ==
    [][\A a \in Conns :
          /\ \A b \in UserIds \ {"all"} : TargetedCapture(a, b) => OnlyTarget(a, b)
          /\ DeliveredFromSnapshot(a)]_vars

\* a room of three members, one of them relaying an envelope addressed to a
\* second one, with exactly that member's handle captured
C4_Witness ==
    \E a \in Conns :
        /\ pc[a] = "send"
        /\ data[a].kind = "text"
        /\ data[a].to \in UserIds \ {"all", user_id[a]}
        /\ room_id[a] \in DOMAIN rooms
        /\ Len(rooms[room_id[a]]) = 3
        /\ Get(rooms[room_id[a]], user_id[a]) = a
        /\ snapshot[a] = <<Get(rooms[room_id[a]], data[a].to)>>

\* the handles registered in a's room under a participant id other than a's
OtherParticipants(a) ==
    {rooms[room_id[a]][i].ws :
        i \in {j \in 1..Len(rooms[room_id[a]]) : rooms[room_id[a]][j].uid # user_id[a]}}

\* C5: a text envelope from A whose `to` is "all" or omitted is sent to the
\* connection of every participant registered in A's room when the snapshot
\* is taken, except A, and to no connection outside that room.
C5_Broadcast ==
    [][\A a \in Conns :
          /\ (CaptureStep(a) /\ data'[a].kind = "text" /\ data'[a].to \in {Absent, "all"})
                => /\ room_id[a] \in DOMAIN rooms
                   /\ Range(snapshot'[a]) = OtherParticipants(a)
                   /\ Len(snapshot'[a]) = Cardinality(OtherParticipants(a))
                   /\ Range(snapshot'[a]) \subseteq Members(rooms, room_id[a])
                   /\ a \notin Range(snapshot'[a])
          /\ DeliveredFromSnapshot(a)]_vars

\* a broadcast with `to` omitted, captured in a room of three while the
\* other room has a member too, the first of two recipients already served
C5_Witness ==
    \E a \in Conns :
        /\ pc[a] = "send"
        /\ data[a].kind = "text"
        /\ data[a].to = Absent
        /\ Len(snapshot[a]) = 2
        /\ Len(recipients[a]) = 1
        /\ \E i \in 1..Len(inbox[snapshot[a][1]]) : inbox[snapshot[a][1]][i] = data[a]


(* ----------------------------- capacity: C6 ---------------------------- *)
\* connection c runs the lock block of the join in this step
JoinAttempt(c) ==
    /\ pc[c] \in {"idle", "accepted"}
    /\ pc'[c] \in {"recv", "reject_close"}

\* the room c asks for holds MAX_PARTICIPANTS_PER_ROOM members already
AtCap(c) ==
    /\ room_id'[c] \in DOMAIN rooms
    /\ Len(rooms[room_id'[c]]) >= MAX_PARTICIPANTS_PER_ROOM

\* C6: a join on a room that already holds MAX_PARTICIPANTS_PER_ROOM members
\* is rejected: the registry is unchanged, the connection is closed with code
\* 1008 and never registered; so no room ever holds more than
\* MAX_PARTICIPANTS_PER_ROOM members.
C6_Capacity ==
    /\ [](\A r \in DOMAIN rooms : Len(rooms[r]) <= MAX_PARTICIPANTS_PER_ROOM)
    /\ [](\A c \in Conns :
            (pc[c] = "reject_close" \/ closeCode[c] = 1008)
               => ~Registered(c) /\ joinSeq[c] = 0 /\ cleanups[c] = 0)
    /\ [][\A c \in Conns :
            /\ (JoinAttempt(c) /\ AtCap(c))
                  => pc'[c] = "reject_close" /\ rooms' = rooms
            /\ (JoinAttempt(c) /\ ~AtCap(c))
                  => pc'[c] = "recv" /\ c \in Members(rooms', room_id'[c])
            /\ (pc[c] = "reject_close" /\ pc'[c] # "reject_close")
                  => pc'[c] = "done" /\ closeCode'[c] = 1008 /\ rooms' = rooms]_vars

\* a connection was turned away with 1008 from a room that is still full
C6_Witness ==
    \E c \in Conns :
        /\ pc[c] = "done"
        /\ closeCode[c] = 1008
        /\ \E r \in DOMAIN rooms : Len(rooms[r]) = MAX_PARTICIPANTS_PER_ROOM

(* ------------------------- cleanup at most once: C7 -------------------- *)
\* C7: the cleanup of the finally clause runs at most once per connection,
\* whether the session ended by a disconnect or by an error in the loop.
C7_CleanupAtMostOnce == \A c \in Conns : cleanups[c] <= 1

\* two sessions past their cleanup and before their close: one ended by an
\* exception in the loop (its transport is still up), one by a disconnect
C7_Witness ==
    \E c1, c2 \in Conns :
        /\ pc[c1] = "close" /\ alive[c1] /\ cleanups[c1] = 1
        /\ pc[c2] = "close" /\ ~alive[c2] /\ cleanups[c2] = 1


(* --------------------- join and leave notices: C8, C9 ------------------ *)
\* handle m has been sent a frame of the given type
Got(m, type) == \E k \in 1..Len(inbox[m]) : inbox[m][k].type = type

\* C8: when D is registered in a room, every member that was registered
\* there before D (and whose transport is up) has been sent a `peer_joined`
\* notification, so that it precedes any broadcast that counts D among its
\* recipients; D itself is sent none for its own join.
C8_PeerJoinedFirst ==
    \A r \in DOMAIN rooms : \A a, d \in Members(rooms, r) :
        /\ (joinSeq[a] < joinSeq[d] /\ alive[a]) => Got(a, "peer_joined")
        /\ (\A x \in Members(rooms, r) : joinSeq[x] <= joinSeq[d])
              => ~Got(d, "peer_joined")

\* C9: by the time a connection's coroutine ends, every member its cleanup
\* left in the room (and whose transport is up) has been sent a `peer_left`
\* notification; and a cleanup never leaves the room behind empty.
C9_PeerLeft ==
    [][\A c \in Conns :
          /\ (pc[c] = "close" /\ pc'[c] = "done")
                => \A m \in remaining[c] : alive[m] => Got(m, "peer_left")
          /\ (cleanups'[c] # cleanups[c] /\ room_id[c] \in DOMAIN rooms')
                => rooms'[room_id[c]] # << >>]_vars

(* --------------------------- malformed text: C10 ----------------------- *)
\* C10: a text frame that is not a well-formed envelope (invalid JSON, JSON
\* that is not an object, an object without the envelope fields) is dropped:
\* nothing is forwarded, the registry is unchanged and the session is back
\* at receive().
C10_MalformedDropped ==
    [][\A c \in Conns :
          /\ (RecvInvalidJson(c) \/ RecvNonObject(c))
                => rooms' = rooms /\ inbox' = inbox /\ pc'[c] = "recv"
          /\ (pc[c] = "recv" /\ pc'[c] # "recv" /\ data'[c].kind = "text")
                => data'[c].type # Absent]_vars


(* -------------------------- target not found: C11 ---------------------- *)
\* session c, parked at the lock with a text envelope, finds the room there
\* and nobody registered under the envelope's `to`
TargetMissing(c) ==
    /\ pc[c] = "forward_text"
    /\ pc'[c] # "forward_text"
    /\ room_id[c] \in DOMAIN rooms
    /\ to[c] \notin {"all", Unhashable}
    /\ ~HasKey(rooms[room_id[c]], to[c])

\* C11: when `to` names a participant id that is not registered in the
\* sender's room, the sender is answered: its own connection is sent an
\* `error` envelope naming the target, no other connection is sent anything,
\* the registry is unchanged and the session is back at receive().
C11_TargetNotFound ==
    [][\A c \in Conns :
          /\ TargetMissing(c) => pc'[c] = "error_reply"
          /\ (pc[c] = "error_reply" /\ pc'[c] # "error_reply")
                => /\ alive[c] => inbox' = [inbox EXCEPT ![c] =
                                   Append(@, ErrorEnvelope(<<"target", to[c], "not found">>))]
                   /\ ~alive[c] => inbox' = inbox
                   /\ rooms' = rooms
                   /\ pc'[c] = "recv"]_vars

(* ------------------------- oversized binary: C12 ----------------------- *)
TooLargeError == ErrorEnvelope(<<"binary frame too large">>)

\* no relay in progress and no client log holds a frame above the limit
NoOversizedRelay ==
    \A c \in Conns :
        /\ data[c].len <= MAX_BINARY_SIZE
        /\ \A i \in 1..Len(inbox[c]) : inbox[c][i].len <= MAX_BINARY_SIZE

\* what the code does with a frame above the limit: nothing captured,
\* relayed or queued on the lock, the handler goes to send the error
Rejected(c) ==
    /\ pc'[c] = "reply_too_large"
    /\ data' = data /\ recipients' = recipients /\ waiters' = waiters
    /\ rooms' = rooms /\ inbox' = inbox /\ closeCode' = closeCode

\* the awaited send of the error is over: the envelope is on the sender's
\* own connection unless its peer is gone, the sender is not closed, the
\* registry is untouched and the session is back at receive()
Replied(c) ==
    /\ alive[c] => inbox' = [inbox EXCEPT ![c] = Append(@, TooLargeError)]
    /\ ~alive[c] => inbox' = inbox
    /\ pc'[c] = "recv"
    /\ rooms' = rooms /\ closeCode' = closeCode /\ cleanups' = cleanups

\* what the code does with a frame within the limit: no error, and the frame
\* goes to forward_binary (at once, or after the wait for the lock)
Accepted(c, n) ==
    /\ inbox' = inbox
    /\ pc'[c] # "reply_too_large"
    /\ ~LockFree => pc'[c] = "forward_binary" /\ data'[c].len = n
    /\ (LockFree /\ room_id[c] \in DOMAIN rooms /\ OtherParticipants(c) # {})
          => pc'[c] = "send" /\ data'[c].len = n /\ data'[c].kind = "bytes"

\* C12: a binary frame longer than MAX_BINARY_SIZE is never forwarded, the
\* sender is sent an `error` envelope and stays open and registered; a frame
\* of exactly MAX_BINARY_SIZE bytes (or fewer) is not rejected.
C12_OversizedBinary ==
    /\ []NoOversizedRelay
    /\ [][\A c \in Conns :
            /\ \A n \in BinLens :
                  BinaryFrame(c, n) =>
                      IF n > MAX_BINARY_SIZE THEN Rejected(c) ELSE Accepted(c, n)
            /\ (pc[c] = "reply_too_large" /\ pc'[c] # "reply_too_large")
                  => Replied(c)]_vars

\* a sender was refused one frame and a peer was relayed a frame of exactly
\* the limit
C12_Witness ==
    \E c, x \in Conns :
        /\ pc[c] = "recv" /\ Registered(c) /\ alive[c]
        /\ \E i \in 1..Len(inbox[c]) : inbox[c][i] = TooLargeError
        /\ \E i \in 1..Len(inbox[x]) :
              inbox[x][i].kind = "bytes" /\ inbox[x][i].len = MAX_BINARY_SIZE

(* ------------------------ per-sender ordering: C13 --------------------- *)
\* frame f was relayed from a session (error replies carry no sender)
Relayed(f) == f.src # None

\* C13: when one connection sends f1 and then f2, every recipient that is
\* delivered both is delivered f1 before f2 (seq is the order of receipt by
\* the server, the inbox is the order of delivery).
C13_SenderOrder ==
    \A x \in Conns : \A i, j \in 1..Len(inbox[x]) :
        (i < j /\ Relayed(inbox[x][i]) /\ inbox[x][i].src = inbox[x][j].src)
            => inbox[x][i].seq < inbox[x][j].seq

\* a recipient was delivered two frames of one connection and, between
\* them, a frame of another connection
C13_Witness ==
    \E x \in Conns : \E i, j, k \in 1..Len(inbox[x]) :
        /\ i < k /\ k < j
        /\ Relayed(inbox[x][i])
        /\ inbox[x][i].src = inbox[x][j].src
        /\ inbox[x][i].src # x
        /\ Relayed(inbox[x][k])
        /\ inbox[x][k].src \notin {x, inbox[x][i].src}

(* ------------------------ best-effort delivery: C14 -------------------- *)
\* session a ran one iteration of its send loop
SendStep(a) ==
    /\ pc[a] = "send"
    /\ recipients'[a] # recipients[a] \/ pc'[a] # "send"

\* what is left of a's loop is the tail end of its snapshot
IsSuffix(s, t) ==
    /\ Len(s) <= Len(t)
    /\ \A i \in 1..Len(s) : s[i] = t[Len(t) - Len(s) + i]

\* C14: when the send to one recipient fails, the send is still attempted for
\* every recipient left in the snapshot, the sender's session goes on (it is
\* neither closed nor sent to cleanup) and the registry is unchanged.
C14_BestEffort ==
    /\ [](\A a \in Conns :
            pc[a] = "send" => recipients[a] # << >> /\ IsSuffix(recipients[a], snapshot[a]))
    /\ [][\A a \in Conns :
            SendStep(a) =>
                /\ rooms' = rooms
                /\ alive'[a] = alive[a] /\ cleanups' = cleanups /\ closeCode' = closeCode
                /\ alive[Head(recipients[a])]
                      => inbox' = [inbox EXCEPT ![Head(recipients[a])] = Append(@, data[a])]
                /\ ~alive[Head(recipients[a])] => inbox' = inbox
                /\ IF Len(recipients[a]) > 1
                   THEN /\ pc'[a] = "send"
                        /\ recipients'[a] = Tail(recipients[a])
                        /\ data'[a] = data[a]
                   ELSE pc'[a] = "recv"]_vars

\* the send to the first of two captured recipients failed (its transport is
\* down, it has not got the frame) and the loop is about to serve the second
C14_Witness ==
    \E a \in Conns :
        /\ pc[a] = "send"
        /\ Len(snapshot[a]) = 2
        /\ recipients[a] = <<snapshot[a][2]>>
        /\ ~alive[snapshot[a][1]]
        /\ \A i \in 1..Len(inbox[snapshot[a][1]]) : inbox[snapshot[a][1]][i] # data[a]
        /\ alive[snapshot[a][2]]
        /\ Registered(snapshot[a][1])

(* --------------------------- binary routing: C15 ----------------------- *)
\* the positions of a session between two receive() calls
RelayStates ==
    {"recv", "forward_text", "forward_binary", "error_reply", "reply_too_large",
     "send"}

\* session a took a step of a relay and stayed in its loop
RelayStep(a) ==
    /\ pc[a] \in RelayStates
    /\ pc'[a] \in RelayStates
    /\ pc'[a] # pc[a] \/ recipients'[a] # recipients[a]

\* C15: a binary frame within the size limit is sent to the connection of
\* every participant registered in the sender's room at snapshot time except
\* the sender, there is no targeted binary delivery, and relaying a frame,
\* binary or text, never adds, removes or replaces a registry entry.
C15_BinaryRouting ==
    [][\A a \in Conns :
          /\ (CaptureStep(a) /\ data'[a].kind = "bytes")
                => /\ room_id[a] \in DOMAIN rooms
                   /\ Range(snapshot'[a]) = OtherParticipants(a)
                   /\ Len(snapshot'[a]) = Cardinality(OtherParticipants(a))
                   /\ a \notin Range(snapshot'[a])
                   /\ to'[a] = Absent
          /\ (pc[a] = "send" /\ data[a].kind = "bytes") => DeliveredFromSnapshot(a)
          /\ RelayStep(a) => rooms' = rooms]_vars

\* a binary frame of exactly the limit captured in a room of three, the
\* first of its two recipients served
C15_Witness ==
    \E a \in Conns :
        /\ pc[a] = "send"
        /\ data[a].kind = "bytes"
        /\ data[a].len = MAX_BINARY_SIZE
        /\ room_id[a] \in DOMAIN rooms
        /\ Len(rooms[room_id[a]]) = 3
        /\ Len(snapshot[a]) = 2
        /\ Len(recipients[a]) = 1
        /\ inbox[snapshot[a][1]] = <<data[a]>>

(* -------------------- isolation from stalled peers: C16 ---------------- *)
\* the handle on which the task holding the lock awaits a close or a send
AwaitedUnderLock(c) ==
    IF pc[c] = "reject_close" THEN c
    ELSE IF pc[c] = "error_reply" THEN SenderWs(rooms[room_id[c]], user_id[c])
    ELSE None

\* session d, of another room than r, waits for the registry lock
WaitsElsewhere(d, r) ==
    /\ pc[d] \in {"accepted", "forward_text", "forward_binary", "cleanup"}
    /\ room_id[d] # r

\* C16: a connection whose send or close never completes never keeps the
\* registry lock held, so the joins, relays and cleanups of connections in
\* other rooms are not made to wait behind it: no task holds the lock while
\* the close or send it awaits is on a stalled handle.
C16_StallFreesLock ==
    \A c \in Conns : lock = c => ~Blocked(AwaitedUnderLock(c))

\* the stalled close of a rejected join holds the lock while a session of
\* another room waits for it
C16_BlockedElsewhere ==
    \E c, d \in Conns :
        /\ lock = c
        /\ Blocked(AwaitedUnderLock(c))
        /\ WaitsElsewhere(d, room_id[c])

(* -------------------------- liveness of cleanup: C17 ------------------- *)
\* c registered and its peer is gone (the next receive() will report it),
\* or an exception is on its way to the finally clause
LoopOver(c) ==
    /\ joinSeq[c] # 0
    /\ pc[c] # "done"
    /\ ~alive[c] \/ pc[c] = "cleanup"

\* the finally clause of c ran and c's handle is in no room
CleanedUp(c) ==
    /\ cleanups[c] = 1
    /\ pc[c] \in {"close", "done"}
    /\ ~Registered(c)

\* the step in which c's finally clause runs its lock block
CleanupStep(c) == cleanups'[c] = cleanups[c] + 1

\* C17: every connection that registered, once its peer disconnects or its
\* loop raises, eventually runs the cleanup under a fair event loop;
\* after the cleanup its handle is not in the registry, and its room is gone
\* when it was the last member.
C17_CleanupLiveness ==
    /\ \A c \in Conns : LoopOver(c) ~> CleanedUp(c)
    /\ [][\A c \in Conns :
            CleanupStep(c) =>
                /\ \A r \in DOMAIN rooms' : c \notin Members(rooms', r)
                /\ (room_id[c] \in DOMAIN rooms /\ Members(rooms, room_id[c]) \subseteq {c})
                      => room_id[c] \notin DOMAIN rooms']_vars

\* the peer of c is gone and c's finally clause waits for the lock, which
\* is held by a session whose awaited send or close is on a stalled handle
C17_BehindStall ==
    \E c, d \in Conns :
        /\ LoopOver(c)
        /\ pc[c] = "cleanup"
        /\ \E k \in 1..Len(waiters) : waiters[k] = c
        /\ lock = d
        /\ Blocked(AwaitedUnderLock(d))

(* ----------------------- registered until the end: C18 ----------------- *)
\* c joined and its finally clause has not run yet
InSession(c) ==
    /\ joinSeq[c] # 0
    /\ cleanups[c] = 0
    /\ pc[c] \in RelayStates \cup {"cleanup"}

\* the registry entry of c: its room, its participant id, its handle
OwnEntry(c) ==
    /\ room_id[c] \in DOMAIN rooms
    /\ Get(rooms[room_id[c]], user_id[c]) = c

\* C18: a connection that joined stays registered until its own session
\* terminates: no later join, the same user_id for the same room included,
\* and no other connection's cleanup removes or replaces its entry; a
\* cleanup removes only the entry that holds the cleaning connection's handle.
C18_StaysRegistered ==
    /\ [](\A c \in Conns : InSession(c) => OwnEntry(c))
    /\ [][\A c, d \in Conns :
            (CleanupStep(c) /\ d # c /\ Registered(d)) => Registered(d)']_vars

(* --------------------- nothing back to the sender: C19 ----------------- *)
\* frame f, relayed from connection a, is text addressed to a's own
\* participant id (and that id is not the broadcast address)
SelfAddressed(f, a) ==
    /\ f.kind = "text"
    /\ f.to = user_id[a]
    /\ f.to # "all"

\* C19 as written: whatever the `to` of a text envelope ("all", absent,
\* another id, the sender's own id), and for every binary frame, the
\* sender's handle is not among the recipients and the frame is not
\* delivered to the sender.
C19_NoSelfDelivery ==
    \A a \in Conns :
        /\ pc[a] = "send" => a \notin Range(snapshot[a])
        /\ \A i \in 1..Len(inbox[a]) : inbox[a][i].src # a

\* C19, amended: the same for every frame except a text envelope addressed
\* to the sender's own participant id, which forward_text looks up like any
\* other target.
C19_NoSelfDeliveryUnlessSelfAddressed ==
    \A a \in Conns :
        /\ (pc[a] = "send" /\ ~SelfAddressed(data[a], a)) => a \notin Range(snapshot[a])
        /\ \A i \in 1..Len(inbox[a]) :
              inbox[a][i].src = a => SelfAddressed(inbox[a][i], a)

\* a member who joined as "all" broadcasts with `to` = "all", its own id:
\* a peer has the frame, the sender is not among the recipients
C19_Witness ==
    \E a, b \in Conns :
        /\ a # b
        /\ user_id[a] = "all"
        /\ OwnEntry(a)
        /\ pc[a] = "recv"
        /\ \E i \in 1..Len(inbox[b]) :
              /\ inbox[b][i].src = a
              /\ inbox[b][i].to = "all"
        /\ \A i \in 1..Len(inbox[a]) : inbox[a][i].src # a

=============================================================================
